---- MODULE Spec2Model ----
(***************************************************************************)
(* Model of the currency rebalancer (herman-mst/fastapi-currency-          *)
(* rebalancer): the market data client (price_service.py), the allocation  *)
(* optimizer (optimization_service.py) and the portfolio handlers          *)
(* (routes/portfolios.py, crud.py, schemas.py, models.py).                 *)
(*                                                                         *)
(* Three specifications share the variables:                              *)
(*   SpecFetch  fetch_historical_prices: one _get_with_retries task per    *)
(*              symbol under asyncio.gather, stepped at every await        *)
(*   SpecOpt    compute_optimal_weights                                    *)
(*   Spec       the portfolio handlers over the database                   *)
(*   SpecRec    the data path of rebalance_portfolio: current prices,      *)
(*              total value and the recommendation list                    *)
(***************************************************************************)
EXTENDS Integers, Sequences, FiniteSets, TLC

\* ------------------------------------------------------------------------
\* Bounds of the model
\* ------------------------------------------------------------------------

\* longest symbol list handed to fetch_historical_prices
MaxSymbols == 2

\* most columns (assets) of a price history given to compute_optimal_weights
MaxAssets == 2

\* most rows (dates) of a price history
MaxRows == 3

\* largest raw solver weight, counted in halves of EPS_ZERO
MaxRaw == 3

\* most portfolios in the database at once
MaxPortfolios == 1

\* most rebalancing reports in the database
MaxReports == 1

\* longest asset list of a create or update request
MaxItems == 2

\* largest quantity of a request
MaxQty == 1

\* ------------------------------------------------------------------------
\* Program constants
\* ------------------------------------------------------------------------

MAX_RETRIES == 3

\* backoff = 10 (price_service.py:24)
InitialBackoff == 10

\* app.core.constants.EPS_ZERO (1e-6); weights are counted in halves of it
EPS_ZERO == 2

\* ------------------------------------------------------------------------
\* State
\* ------------------------------------------------------------------------

VARIABLES
    symbols,      \* fetch_historical_prices: the input list of symbols
    fpc,          \* fetch_historical_prices: where the coroutine stands
    tasks,        \* one _get_with_retries task per position of symbols
    outer,        \* the future asyncio.gather returns
    doneOrder,    \* positions of the tasks in the order they finished
    clientOpen,   \* the httpx.AsyncClient of the async with block is open
    table,        \* the DataFrame fetch_historical_prices returns
    price_history,  \* compute_optimal_weights: the price table it is given
    target_return,  \* compute_optimal_weights: the optional return floor
    opc,          \* compute_optimal_weights: where the call stands
    returns,      \* the rows of log-returns left after dropna()
    stats,        \* mu and Sigma: "ok" or "nan"
    problem,      \* the solved cvxpy problem: its status and w.value
    weights,      \* the mapping compute_optimal_weights returns
    oerr,         \* the exception compute_optimal_weights ends in
    portfolios,   \* table portfolios: id -> [user_id, name]
    holdings,     \* table portfolio_assets: the rows, keyed by both ids
    reports,      \* table rebalancing_reports, in the order of their ids
    last,         \* the last request handled and the response it got
    rin,          \* rebalance data path: the rows, the feed, the weights
    rpc,          \* rebalance data path: where it stands
    rprices,      \* the mapping fetch_current_prices returns
    rout          \* total_value, the recommendation list, the exception

fetchVars == <<symbols, fpc, tasks, outer, doneOrder, clientOpen, table>>

optVars ==
    <<price_history, target_return, opc, returns, stats, problem, weights, oerr>>

appVars == <<portfolios, holdings, reports, last>>

recVars == <<rin, rpc, rprices, rout>>

vars == <<fetchVars, optVars, appVars, recVars>>

\* ------------------------------------------------------------------------
\* Market data client: _get_with_retries and fetch_historical_prices
\* ------------------------------------------------------------------------

SymbolSet == {"btc", "eth"}

\* the status codes the upstream feed answers with
StatusCodes == {200, 429, 500}

\* the bodies a successful market_chart response can carry
Payloads == {"p1", "p2"}

NoResp == [status |-> 0, data |-> "none"]

Response(status, data) == [status |-> status, data |-> data]

\* what the feed can answer to one request
FeedResponses ==
    {Response(200, d) : d \in Payloads}
        \cup {Response(s, "none") : s \in StatusCodes \ {200}}

\* resp.status_code == 429, with the mutant that retries every failure
IsRateLimitedOrError(status) == status # 200

IsRateLimited(status) == status = 429

\* httpx.Response.raise_for_status raises unless the status is a success
RaiseForStatus(status) == ~(status \div 100 = 2)

\* backoff *= 2, with the mutant that forgets to grow it
KeepBackoff(b) == b

NextBackoff(b) == b * 2

\* await asyncio.sleep(backoff) suspends the calling task only; time.sleep
\* would hold the whole event loop
SleepBlocksLoop(sleeper, other) == TRUE

SleepBlocks(sleeper, other) == sleeper = other

NewTask ==
    [pc      |-> "created",
     backoff |-> InitialBackoff,
     attempt |-> 1,
     resp    |-> NoResp,
     err     |-> "none",
     sent    |-> 0,
     waits   |-> <<>>,
     got     |-> <<>>]

TaskIds == 1..Len(symbols)

Finished(t) == t.pc \in {"returned", "raised"}

\* a task may run unless a sleep that blocks it is in progress
Runnable(i) ==
    \A s \in TaskIds \ {i} : tasks[s].pc = "sleep" => ~SleepBlocks(s, i)

\* asyncio.gather's _done_callback, run when task i has just finished
OuterAfter(o, ts, i) ==
    IF o # "pending" THEN o
    ELSE IF ts[i].pc = "raised" THEN "exception"
    ELSE IF \A j \in DOMAIN ts : ts[j].pc = "returned" THEN "result"
    ELSE "pending"

\* the list asyncio.gather resolves to: the results in the order of the
\* awaitables it was given; the mutant hands them out as they completed
GatherInCompletionOrder(ts, order) ==
    [i \in DOMAIN ts |-> ts[order[i]].resp]

GatherResults(ts, order) ==
    [i \in DOMAIN ts |-> ts[i].resp]

\* data[sym] = series: a dict keeps a key where it was first inserted
DictSet(d, key, val) ==
    IF \E c \in DOMAIN d : d[c].sym = key
    THEN [c \in DOMAIN d |->
            IF d[c].sym = key THEN [sym |-> key, data |-> val] ELSE d[c]]
    ELSE Append(d, [sym |-> key, data |-> val])

RECURSIVE BuildTable(_, _, _)
\* for resp, sym in zip(responses, symbols): data[sym] = ...; DataFrame(data)
BuildTable(responses, syms, k) ==
    IF k = 0 THEN <<>>
    ELSE DictSet(BuildTable(responses, syms, k - 1), syms[k], responses[k].data)

\* tasks = [...]; responses = await asyncio.gather(*tasks): every coroutine
\* becomes a scheduled task
Gather ==
    /\ fpc = "start"
    /\ fpc' = "gather"
    /\ tasks' = [i \in TaskIds |-> [NewTask EXCEPT !.pc = "get"]]
    /\ UNCHANGED <<symbols, outer, doneOrder, clientOpen, table>>

FinishTask(i, t) ==
    LET ts == [tasks EXCEPT ![i] = t] IN
    /\ tasks' = ts
    /\ doneOrder' = IF Finished(t) THEN Append(doneOrder, i) ELSE doneOrder
    /\ outer' = IF Finished(t) THEN OuterAfter(outer, ts, i) ELSE outer

\* resp = await client.get(...): the request leaves; a closed client refuses
SendRequest(i) ==
    /\ i \in TaskIds
    /\ tasks[i].pc = "get"
    /\ Runnable(i)
    /\ IF clientOpen
       THEN FinishTask(i, [tasks[i] EXCEPT !.pc = "await", !.sent = @ + 1])
       ELSE FinishTask(i, [tasks[i] EXCEPT !.pc = "raised", !.err = "ClientClosed"])
    /\ UNCHANGED <<symbols, fpc, clientOpen, table>>

\* the response arrives: 429 starts the backoff sleep, anything else goes
\* through raise_for_status and returns
ReceiveResponse(i, r) ==
    /\ i \in TaskIds
    /\ tasks[i].pc = "await"
    /\ Runnable(i)
    /\ LET t == [tasks[i] EXCEPT !.resp = r, !.got = Append(@, r)] IN
       IF IsRateLimited(r.status)
       THEN FinishTask(i, [t EXCEPT !.pc = "sleep"])
       ELSE IF RaiseForStatus(r.status)
       THEN FinishTask(i, [t EXCEPT !.pc = "raised", !.err = "HTTPStatusError"])
       ELSE FinishTask(i, [t EXCEPT !.pc = "returned"])
    /\ UNCHANGED <<symbols, fpc, clientOpen, table>>

\* client.get raises (timeout=10.0 expired, connection lost)
TransportError(i) ==
    /\ i \in TaskIds
    /\ tasks[i].pc = "await"
    /\ Runnable(i)
    /\ FinishTask(i, [tasks[i] EXCEPT !.pc = "raised", !.err = "TransportError"])
    /\ UNCHANGED <<symbols, fpc, clientOpen, table>>

\* asyncio.sleep(backoff) is over; backoff *= 2; continue. When the loop is
\* exhausted the last response goes through raise_for_status
Wake(i) ==
    /\ i \in TaskIds
    /\ tasks[i].pc = "sleep"
    /\ LET t == [tasks[i] EXCEPT !.waits = Append(@, tasks[i].backoff),
                                 !.backoff = NextBackoff(@)] IN
       IF t.attempt < MAX_RETRIES
       THEN FinishTask(i, [t EXCEPT !.attempt = @ + 1, !.pc = "get"])
       ELSE IF RaiseForStatus(t.resp.status)
       THEN FinishTask(i, [t EXCEPT !.pc = "raised", !.err = "HTTPStatusError"])
       ELSE FinishTask(i, [t EXCEPT !.pc = "returned"])
    /\ UNCHANGED <<symbols, fpc, clientOpen, table>>

\* gather resolved: leave the async with block, build the DataFrame, return
JoinAndBuild ==
    /\ fpc = "gather"
    /\ outer = "result"
    /\ clientOpen' = FALSE
    /\ table' = BuildTable(GatherResults(tasks, doneOrder), symbols, Len(symbols))
    /\ fpc' = "returned"
    /\ UNCHANGED <<symbols, tasks, outer, doneOrder>>

\* gather raised the first exception: leave the async with block, propagate
JoinRaise ==
    /\ fpc = "gather"
    /\ outer = "exception"
    /\ clientOpen' = FALSE
    /\ fpc' = "raised"
    /\ UNCHANGED <<symbols, tasks, outer, doneOrder, table>>

\* the symbol lists rebalance_portfolio passes: lower-cased asset symbols,
\* where two assets may share one lower-cased symbol
SymbolLists ==
    UNION {[1..n -> SymbolSet] : n \in 1..MaxSymbols}

FetchStart ==
    /\ symbols \in SymbolLists
    /\ fpc = "start"
    /\ tasks = [i \in 1..Len(symbols) |-> NewTask]
    /\ outer = "pending"
    /\ doneOrder = <<>>
    /\ clientOpen = TRUE
    /\ table = <<>>


\* ------------------------------------------------------------------------
\* Allocation optimizer: compute_optimal_weights
\* ------------------------------------------------------------------------

None == "None"

\* w.value of a problem that has no solution (None)
NoValue == <<>>

NoWeights == <<>>

\* a price table: its columns (tickers) and, per row, whether each column
\* has a price that day (FALSE: NaN)
PriceTables ==
    UNION {
        {[columns |-> cols, rows |-> rws] :
            cols \in {c \in [1..n -> SymbolSet] :
                        \A a, b \in 1..n : a # b => c[a] # c[b]},
            rws \in UNION {[1..r -> [1..n -> BOOLEAN]] : r \in 0..MaxRows}}
        : n \in 1..MaxAssets}

\* np.log(price_history / price_history.shift(1)).dropna(): the row of date
\* t is kept when every column has a price at t and at t-1
UsableReturnRows(ph) ==
    {t \in 2..Len(ph.rows) :
        \A c \in DOMAIN ph.columns : ph.rows[t][c] /\ ph.rows[t - 1][c]}

\* returns.mean(): NaN for an empty frame
MeanOf(rows) == IF Cardinality(rows) >= 1 THEN "ok" ELSE "nan"

\* returns.cov(): the sample covariance needs two rows
CovOf(rows) == IF Cardinality(rows) >= 2 THEN "ok" ELSE "nan"

RawValues == (0 - 1)..MaxRaw

RawVectors(n) == [1..n -> RawValues]

\* what problem.solve(solver=cp.SCS) can leave behind, or raise. A solution
\* is present for the statuses optimal and optimal_inaccurate only; NaN
\* statistics are refused or fail in the solver
SolverRaises(st) ==
    {"SolverError"} \cup (IF "nan" \in {st.mu, st.Sigma} THEN {"ValueError"} ELSE {})

SolverOutcomes(n, st, target) ==
    (IF "nan" \in {st.mu, st.Sigma}
     THEN {[status |-> s, value |-> NoValue] : s \in {"infeasible", "unbounded"}}
     ELSE {[status |-> s, value |-> v] :
              s \in {"optimal", "optimal_inaccurate"}, v \in RawVectors(n)})
    \cup (IF target # None /\ "nan" \notin {st.mu, st.Sigma}
          THEN {[status |-> "infeasible", value |-> NoValue]}
          ELSE {})

\* np.where(raw_w < EPS_ZERO, 0.0, raw_w), with the mutant that clips
\* negative weights only
ClipNegativeOnly(raw) == [i \in DOMAIN raw |-> IF raw[i] < 0 THEN 0 ELSE raw[i]]

Clip(raw) == [i \in DOMAIN raw |-> IF raw[i] < EPS_ZERO THEN 0 ELSE raw[i]]

RECURSIVE SumTo(_, _)
SumTo(v, k) == IF k = 0 THEN 0 ELSE SumTo(v, k - 1) + v[k]

\* w_clipped.sum()
Sum(v) == SumTo(v, Len(v))

\* w_clipped / w_clipped.sum(), or ones / n: each weight as a fraction; the
\* mutant has no equal-weight fallback and leaves the clipped vector as it is
NormalizeNoFallback(clipped) ==
    [i \in DOMAIN clipped |->
        [num |-> clipped[i],
         den |-> IF Sum(clipped) > 0 THEN Sum(clipped) ELSE 1]]

Normalize(clipped) ==
    IF Sum(clipped) > 0
    THEN [i \in DOMAIN clipped |-> [num |-> clipped[i], den |-> Sum(clipped)]]
    ELSE [i \in DOMAIN clipped |-> [num |-> 1, den |-> Len(clipped)]]

\* {tickers[i]: float(w_norm[i]) for i in range(n)}
WeightMapping(tickers, w_norm) ==
    [i \in DOMAIN w_norm |->
        [sym |-> tickers[i], num |-> w_norm[i].num, den |-> w_norm[i].den]]

\* lines 26-32: log-returns, dropna, mu, Sigma, n
Estimate ==
    /\ opc = "start"
    /\ LET rows == UsableReturnRows(price_history) IN
       /\ returns' = rows
       /\ stats' = [mu |-> MeanOf(rows), Sigma |-> CovOf(rows),
                    n |-> Len(price_history.columns)]
    /\ opc' = "estimated"
    /\ UNCHANGED <<price_history, target_return, problem, weights, oerr>>

\* lines 35-51: the problem is built and handed to the solver
Solve ==
    /\ opc = "estimated"
    /\ \E out \in SolverOutcomes(stats.n, stats, target_return) :
          /\ problem' = out
          /\ opc' = "solved"
          /\ oerr' = oerr
    /\ UNCHANGED <<price_history, target_return, returns, stats, weights>>

\* lines 35-51: building or solving the problem raises
SolveRaises ==
    /\ opc = "estimated"
    /\ \E e \in SolverRaises(stats) :
          /\ oerr' = e
          /\ opc' = "raised"
    /\ UNCHANGED <<price_history, target_return, returns, stats, problem, weights>>

\* lines 53-63: raw_w = w.value is clipped, normalised and returned; the
\* comparison None < EPS_ZERO raises TypeError
NormalizeAndReturn ==
    /\ opc = "solved"
    /\ IF problem.value = NoValue
       THEN /\ oerr' = "TypeError"
            /\ opc' = "raised"
            /\ weights' = weights
       ELSE /\ weights' = WeightMapping(price_history.columns,
                                        Normalize(Clip(problem.value)))
            /\ opc' = "returned"
            /\ oerr' = oerr
    /\ UNCHANGED <<price_history, target_return, returns, stats, problem>>

NotSolved == [status |-> "not_run", value |-> NoValue]

OptStart ==
    /\ price_history \in PriceTables
    /\ target_return \in {None, "r"}
    /\ opc = "start"
    /\ returns = {}
    /\ stats = [mu |-> "nan", Sigma |-> "nan", n |-> 0]
    /\ problem = NotSolved
    /\ weights = NoWeights
    /\ oerr = "none"

\* ------------------------------------------------------------------------
\* Portfolio handlers: routes/portfolios.py over crud.py and models.py
\* ------------------------------------------------------------------------

Users == {"u1", "u2"}

Names == {"n1", "n2"}

\* table assets: symbol is unique, and compared case-sensitively
AssetSymbols == <<"BTC", "btc", "eth">>

AssetIds == DOMAIN AssetSymbols

\* str.lower()
Lower(sym) == IF sym = "BTC" THEN "btc" ELSE sym

TargetPcts == {1}

Quantities == 0..MaxQty

\* schemas.PortfolioAssetCreate; the requests name existing assets
Items == [asset_id : AssetIds, target_pct : TargetPcts, quantity : Quantities]

ItemLists == UNION {[1..n -> Items] : n \in 0..MaxItems}

\* Column(Float, nullable=False, default=0.0)
DefaultQuantity == 0

\* the row crud.create_portfolio adds for an item: quantity is not passed, so
\* the column default applies; the mutant passes it
CreatedRowWithQuantity(pid, item) ==
    [portfolio_id |-> pid, asset_id |-> item.asset_id,
     target_pct |-> item.target_pct, quantity |-> item.quantity]

CreatedRow(pid, item) ==
    [portfolio_id |-> pid, asset_id |-> item.asset_id,
     target_pct |-> item.target_pct, quantity |-> DefaultQuantity]

\* the row update_portfolio adds for an item, with the mutant that leaves
\* the quantity to the column default
UpdatedRowWithoutQuantity(pid, item) ==
    [portfolio_id |-> pid, asset_id |-> item.asset_id,
     target_pct |-> item.target_pct, quantity |-> DefaultQuantity]

UpdatedRow(pid, item) ==
    [portfolio_id |-> pid, asset_id |-> item.asset_id,
     target_pct |-> item.target_pct, quantity |-> item.quantity]

\* the second commit fails with IntegrityError: a repeated primary key
\* (portfolio_id, asset_id)
InsertFails(items) ==
    \E a, b \in DOMAIN items : a # b /\ items[a].asset_id = items[b].asset_id

\* crud.get_portfolio: the portfolio with this id owned by this user, with
\* the mutant that filters on the id alone
GetPortfolioOfAnyUser(pid, user) == pid \in DOMAIN portfolios

GetPortfolio(pid, user) ==
    pid \in DOMAIN portfolios /\ portfolios[pid].user_id = user

\* Portfolio.assets
AssetsOf(pid) == {h \in holdings : h.portfolio_id = pid}

\* Portfolio.rebalancing_reports
ReportsOf(pid) == {k \in DOMAIN reports : reports[k].portfolio_id = pid}

\* schemas.PortfolioAssetRead of a row
AssetRead(h) ==
    [asset_id |-> h.asset_id, target_pct |-> h.target_pct, quantity |-> h.quantity]

\* the response model PortfolioRead fails on a row whose asset is missing
PortfolioReadFails(rows) == \E h \in rows : h.asset_id \notin AssetIds

\* INTEGER PRIMARY KEY: one more than the largest id in the table
NextId(ids) == IF ids = {} THEN 1 ELSE 1 + (CHOOSE m \in ids : \A x \in ids : x <= m)

\* total_value of a call that has not computed it
NoTotal == 0 - 1

NoRequest ==
    [op |-> "none", user |-> "none", pid |-> 0, name |-> "none", items |-> <<>>]

Request(op, user, pid, name, items) ==
    [op |-> op, user |-> user, pid |-> pid, name |-> name, items |-> items]

\* a response: the status, and the fields of the body the claims read
Reply(status, detail, pid, name, assets, recs, message) ==
    [status |-> status, detail |-> detail, pid |-> pid, name |-> name,
     assets |-> assets, recommendations |-> recs, message |-> message,
     total_value |-> NoTotal]

ErrorReply(status, detail) == Reply(status, detail, 0, "none", {}, <<>>, "null")

PortfolioReply(status, pid, name, rows) ==
    IF PortfolioReadFails(rows)
    THEN ErrorReply(500, "ResponseValidationError")
    ELSE Reply(status, "none", pid, name, {AssetRead(h) : h \in rows}, <<>>, "null")

\* POST /portfolios: crud.create_portfolio
CreatePortfolio(user, name, items) ==
    /\ Cardinality(DOMAIN portfolios) < MaxPortfolios
    /\ LET pid == NextId(DOMAIN portfolios)
           rows == {CreatedRow(pid, items[k]) : k \in DOMAIN items} IN
       /\ portfolios' = [x \in DOMAIN portfolios \cup {pid} |->
                            IF x = pid THEN [user_id |-> user, name |-> name]
                            ELSE portfolios[x]]
       /\ IF InsertFails(items)
          THEN /\ holdings' = holdings
               /\ last' = [req |-> Request("create", user, pid, name, items),
                           resp |-> ErrorReply(500, "IntegrityError")]
          ELSE /\ holdings' = holdings \cup rows
               /\ last' = [req |-> Request("create", user, pid, name, items),
                           resp |-> PortfolioReply(201, pid, name, rows)]
    /\ UNCHANGED reports

\* GET /portfolios/{portfolio_id}
ReadPortfolio(user, pid) ==
    /\ last' = [req |-> Request("read", user, pid, "none", <<>>),
                resp |-> IF GetPortfolio(pid, user)
                         THEN PortfolioReply(200, pid, portfolios[pid].name, AssetsOf(pid))
                         ELSE ErrorReply(404, "Portfolio not found")]
    /\ UNCHANGED <<portfolios, holdings, reports>>

\* PUT /portfolios/{portfolio_id}: the name and the deletion of the old rows
\* are committed first, the new rows in a second commit
UpdatePortfolio(user, pid, name, items) ==
    LET req == Request("update", user, pid, name, items) IN
    IF ~GetPortfolio(pid, user)
    THEN /\ last' = [req |-> Request("update", user, pid, "none", <<>>),
                     resp |-> ErrorReply(404, "Portfolio not found")]
         /\ UNCHANGED <<portfolios, holdings, reports>>
    ELSE LET rows == {UpdatedRow(pid, items[k]) : k \in DOMAIN items} IN
         /\ portfolios' = [portfolios EXCEPT ![pid].name = name]
         /\ IF InsertFails(items)
            THEN /\ holdings' = holdings \ AssetsOf(pid)
                 /\ last' = [req |-> req, resp |-> ErrorReply(500, "IntegrityError")]
            ELSE /\ holdings' = (holdings \ AssetsOf(pid)) \cup rows
                 /\ last' = [req |-> req, resp |-> PortfolioReply(200, pid, name, rows)]
         /\ UNCHANGED reports

\* DELETE /portfolios/{portfolio_id}: crud.delete_portfolio. The rows of
\* Portfolio.assets go with it (cascade); the reports have no cascade, so
\* their portfolio_id is set to NULL, which nullable=False refuses
DeletePortfolio(user, pid) ==
    LET req == Request("delete", user, pid, "none", <<>>) IN
    IF ~GetPortfolio(pid, user)
    THEN /\ last' = [req |-> req, resp |-> ErrorReply(404, "Portfolio not found")]
         /\ UNCHANGED <<portfolios, holdings, reports>>
    ELSE IF ReportsOf(pid) # {}
    THEN /\ last' = [req |-> req, resp |-> ErrorReply(500, "IntegrityError")]
         /\ UNCHANGED <<portfolios, holdings, reports>>
    ELSE /\ portfolios' = [x \in DOMAIN portfolios \ {pid} |-> portfolios[x]]
         /\ holdings' = holdings \ AssetsOf(pid)
         /\ last' = [req |-> req, resp |-> ErrorReply(204, "none")]
         /\ UNCHANGED reports

\* --- exact arithmetic on the floats of a report: fractions num/den ---------

RECURSIVE GCD(_, _)
GCD(a, b) == IF b = 0 THEN a ELSE GCD(b, a % b)

Abs(x) == IF x < 0 THEN 0 - x ELSE x

\* the fraction n/d (d # 0) in lowest terms with a positive denominator
Q(n, d) ==
    LET g == GCD(Abs(n), Abs(d))
        sgn == IF d < 0 THEN 0 - 1 ELSE 1 IN
    [num |-> (sgn * n) \div g, den |-> (sgn * d) \div g]

QSub(x, y) == Q(x.num * y.den - y.num * x.den, x.den * y.den)

QAdd(x, y) == Q(x.num * y.den + y.num * x.den, x.den * y.den)

QMul(x, y) == Q(x.num * y.num, x.den * y.den)

QDiv(x, y) == Q(x.num * y.den, x.den * y.num)

\* abs(diff), with the mutant that keeps the sign
QKeepSign(x) == x

QAbs(x) == [num |-> Abs(x.num), den |-> x.den]

QInt(n) == [num |-> n, den |-> 1]

QLeq(x, y) == x.num * y.den <= y.num * x.den

\* --- the inputs rebalance_portfolio gets from the feed and the optimizer ---

LowerSymbols == {Lower(AssetSymbols[a]) : a \in AssetIds}

\* a symbol the feed's answer has no price for
Missing == 0 - 1

\* a symbol the feed's answer has an entry for, without the quote currency
NoQuote == 0 - 2

FeedPrices == {Missing, 1, 2}

\* fetch_current_prices: data.get(sym, {}).get(vs_currency, 0.0), with the
\* mutant that has no default
CurrentPriceNoDefault(data, sym) == data[sym]

CurrentPrice(data, sym) ==
    IF data[sym] \in {Missing, NoQuote} THEN 0 ELSE data[sym]

\* the orders in which the rows of Portfolio.assets can be loaded
Orderings(rows) ==
    {o \in [1..Cardinality(rows) -> rows] :
        \A a, b \in 1..Cardinality(rows) : a # b => o[a] # o[b]}

\* d[key] of a dict built with DictSet
Lookup(d, key) == (CHOOSE c \in DOMAIN d : d[c].sym = key)

HasKey(d, key) == \E c \in DOMAIN d : d[c].sym = key

RECURSIVE DictOf(_, _, _)
\* {keys[k]: vals[k] for k in ...}
DictOf(keys, vals, k) ==
    IF k = 0 THEN <<>>
    ELSE DictSet(DictOf(keys, vals, k - 1), keys[k], vals[k])

RECURSIVE TotalValue(_, _, _, _)
\* sum(quantities[sym] * prices.get(sym, 0.0) for sym in symbols)
TotalValue(syms, quantities, data, k) ==
    IF k = 0 THEN 0
    ELSE TotalValue(syms, quantities, data, k - 1)
            + quantities[Lookup(quantities, syms[k])].data * CurrentPrice(data, syms[k])

\* weights.get(sym, 0.0)
WeightOf(w, sym) ==
    IF \E c \in DOMAIN w : w[c].sym = sym
    THEN LET c == CHOOSE c \in DOMAIN w : w[c].sym = sym IN Q(w[c].num, w[c].den)
    ELSE QInt(0)

\* diff > 0, with the mutant that also buys on a tie
BuysOnTie(diff) == diff.num >= 0

Buys(diff) == diff.num > 0

\* prices[sym] or 1.0, with the mutant that divides by the price as it is
PriceAsIs(price) == price

PriceOrOne(price) == IF price = 0 THEN 1 ELSE price

\* lines 232-246: the recommendation of one symbol
Recommend(sym, quantities, data, w, total_value) ==
    LET price == CurrentPrice(data, sym)
        current_pct == Q(quantities[Lookup(quantities, sym)].data * price, total_value)
        target_pct == WeightOf(w, sym)
        diff == QSub(target_pct, current_pct)
        units == QDiv(QMul(QAbs(diff), QInt(total_value)), QInt(PriceOrOne(price)))
        value == QMul(units, QInt(price)) IN
    [symbol |-> sym,
     current_pct |-> current_pct,
     target_pct |-> target_pct,
     action |-> IF Buys(diff) THEN "buy" ELSE "sell",
     amount_units |-> units,
     amount_value |-> value]

\* lines 231-246: one recommendation per entry of symbols, in that order;
\* the mutant walks the keys of the weight mapping instead
RecommendationsByWeightKeys(symbols_, quantities, data, w, total_value) ==
    [k \in DOMAIN w |-> Recommend(w[k].sym, quantities, data, w, total_value)]

RecommendationsFor(symbols_, quantities, data, w, total_value) ==
    [k \in DOMAIN symbols_ |->
        Recommend(symbols_[k], quantities, data, w, total_value)]

\* schemas.Recommendation: the constraints of the response model
ValidRecommendation(r) ==
    /\ QLeq(QInt(0), r.current_pct) /\ QLeq(r.current_pct, QInt(1))
    /\ QLeq(QInt(0), r.target_pct) /\ QLeq(r.target_pct, QInt(1))
    /\ QLeq(QInt(0), r.amount_units)
    /\ QLeq(QInt(0), r.amount_value)

\* schemas.RebalancingReportRead: id, portfolio_id (>= 1) and generated_at
\* are required, recommendations has a default, other keywords are ignored
ReportReadRequired == {"id", "portfolio_id", "generated_at"}

ReportReadFields == ReportReadRequired \cup {"recommendations"}

\* the keywords of the zero-value return (lines 213-218)
ZeroValueKeywords == {"id", "portfolio_id", "recommendations", "message"}

ZeroValueMessage == "Total portfolio value is zero"

\* RebalancingReportRead(**keywords): a ValidationError, or the model
ReportRead(keywords, pid, recs) ==
    IF ~(ReportReadRequired \subseteq keywords) \/ pid < 1
    THEN ErrorReply(500, "ValidationError")
    ELSE Reply(200, "none", pid, "none", {}, recs,
               IF "message" \in ReportReadFields \cap keywords
               THEN ZeroValueMessage ELSE "null")

\* symbols = [pa.asset.symbol.lower() for pa in port.assets]
SymbolsOf(order) ==
    [k \in DOMAIN order |-> Lower(AssetSymbols[order[k].asset_id])]

\* quantities = {pa.asset.symbol.lower(): pa.quantity for pa in port.assets}
QuantitiesOf(order) ==
    DictOf(SymbolsOf(order), [k \in DOMAIN order |-> order[k].quantity], Len(order))

\* the tickers of the table fetch_historical_prices builds for symbols
Tickers(syms) ==
    LET t == DictOf(syms, syms, Len(syms)) IN [c \in DOMAIN t |-> t[c].sym]

\* the weight mappings compute_optimal_weights can return for the tickers
WeightMappings(tickers) ==
    {WeightMapping(tickers, Normalize(Clip(raw))) : raw \in RawVectors(Len(tickers))}

\* crud.create_rebalancing_report: the report is added and committed; the
\* mutant never adds it
ReportNotStored(rs, report) == rs

CreateRebalancingReport(rs, report) == Append(rs, report)

\* POST /portfolios/{portfolio_id}/rebalance. order: the order the rows of
\* port.assets load in; curOk, data: fetch_current_prices returns (the
\* feed's prices) or raises; histOk: fetch_historical_prices returns or
\* raises; optOk, raw: compute_optimal_weights returns the weights of the
\* raw solver vector or raises
RebalancePortfolio(user, pid, order, curOk, data, histOk, optOk, raw) ==
    LET req == Request("rebalance", user, pid, "none", <<>>)
        reply(r) == /\ last' = [req |-> req, resp |-> r]
                    /\ UNCHANGED <<portfolios, holdings, reports>>
        valued(r, total) == [r EXCEPT !.total_value = total] IN
    IF ~GetPortfolio(pid, user)
    THEN reply(ErrorReply(404, "Portfolio not found"))
    ELSE
    LET symbols_ == SymbolsOf(order)
        quantities == QuantitiesOf(order)
        total_value == TotalValue(symbols_, quantities, data, Len(symbols_))
        tickers == Tickers(symbols_)
        w == WeightMapping(tickers, Normalize(Clip(raw)))
        recommendations ==
            RecommendationsFor(symbols_, quantities, data, w, total_value)
        report == [id |-> NextId({reports[k].id : k \in DOMAIN reports}),
                   portfolio_id |-> pid,
                   recommendations |-> recommendations] IN
    IF symbols_ = <<>>
    THEN reply(ErrorReply(400, "Portfolio has no assets"))
    ELSE IF ~curOk
    THEN reply(ErrorReply(500, "HTTPStatusError"))
    ELSE IF total_value = 0
    THEN reply(valued(ReportRead(ZeroValueKeywords, pid, <<>>), total_value))
    ELSE IF ~histOk
    THEN reply(valued(ErrorReply(500, "HTTPStatusError"), total_value))
    ELSE IF ~optOk
    THEN reply(valued(ErrorReply(500, "OptimizerError"), total_value))
    ELSE /\ Len(reports) < MaxReports
         /\ reports' = CreateRebalancingReport(reports, report)
         /\ last' = [req |-> req,
                     resp |-> valued(IF \A k \in DOMAIN recommendations :
                                           ValidRecommendation(recommendations[k])
                                     THEN Reply(200, "none", pid, "none", {},
                                                recommendations, "null")
                                     ELSE ErrorReply(500, "ResponseValidationError"),
                                     total_value)]
         /\ UNCHANGED <<portfolios, holdings>>

PortfolioIds == 1..MaxPortfolios

\* the answers of the feed and the raw solver vectors the handlers are run
\* against: every price 1, no price at all, a price for btc only; equal raw
\* weights, all the weight on the first ticker
AppFeedData ==
    {[s \in LowerSymbols |-> 1],
     [s \in LowerSymbols |-> Missing],
     [s \in LowerSymbols |-> IF s = "btc" THEN 2 ELSE Missing]}

AppRawVectors(n) ==
    {[i \in 1..n |-> EPS_ZERO], [i \in 1..n |-> IF i = 1 THEN MaxRaw ELSE 0]}

\* what the feed and the optimizer do during one rebalance call
RebalanceEnvs(n) ==
    {[curOk |-> FALSE, data |-> [s \in LowerSymbols |-> Missing],
      histOk |-> FALSE, optOk |-> FALSE, raw |-> [i \in 1..n |-> 0]]}
    \cup {[curOk |-> TRUE, data |-> d, histOk |-> FALSE, optOk |-> FALSE,
           raw |-> [i \in 1..n |-> 0]] : d \in AppFeedData}
    \cup {[curOk |-> TRUE, data |-> d, histOk |-> TRUE, optOk |-> FALSE,
           raw |-> [i \in 1..n |-> 0]] : d \in AppFeedData}
    \cup {[curOk |-> TRUE, data |-> d, histOk |-> TRUE, optOk |-> TRUE,
           raw |-> r] : d \in AppFeedData, r \in AppRawVectors(n)}

\* the number of tickers of a portfolio: its distinct lower-cased symbols
TickerCount(pid) ==
    Cardinality({Lower(AssetSymbols[h.asset_id]) : h \in AssetsOf(pid)})

AppStart ==
    /\ portfolios = <<>>
    /\ holdings = {}
    /\ reports = <<>>
    /\ last = [req |-> NoRequest, resp |-> ErrorReply(0, "none")]

\* ------------------------------------------------------------------------
\* The data path of rebalance_portfolio (lines 201-246): current prices,
\* total value, recommendations
\* ------------------------------------------------------------------------

\* the quantities of the rows: none, one, ten units
RecQuantities == {0, 1, 10}

\* what the feed's answer holds for a symbol
RecFeedPrices == {Missing, NoQuote, 0, 3000, 50000}

\* port.assets: rows of distinct assets, in the order they load
RecHoldings ==
    UNION {{h \in [1..n -> [asset_id : AssetIds, quantity : RecQuantities]] :
               \A a, b \in 1..n : a # b => h[a].asset_id # h[b].asset_id}
           : n \in 1..MaxItems}

Reverse(s) == [k \in DOMAIN s |-> s[Len(s) + 1 - k]]

\* the target weights handed to the generator: a mapping the optimizer can
\* return for the tickers, with its keys in either order
RecWeights(tickers) ==
    UNION {{m, Reverse(m)} : m \in WeightMappings(tickers)}

NoInput ==
    [holdings |-> <<>>, feedOk |-> FALSE,
     data |-> [s \in LowerSymbols |-> Missing], w |-> <<>>]

NoOutput == [total_value |-> NoTotal, recommendations |-> <<>>, err |-> "none"]

RecInputs ==
    UNION {{[holdings |-> h, feedOk |-> TRUE, data |-> d, w |-> w] :
               d \in [LowerSymbols -> RecFeedPrices],
               w \in RecWeights(Tickers(SymbolsOf(h)))}
           \cup {[NoInput EXCEPT !.holdings = h]}
           : h \in RecHoldings}

\* prices.get(sym, 0.0) over the mapping fetch_current_prices returned
PricesGet(prices) ==
    [s \in LowerSymbols |->
        IF HasKey(prices, s) THEN prices[Lookup(prices, s)].data ELSE 0]

\* line 207, price_service.py:50-56: the feed answered; one entry per symbol
FetchCurrentPrices ==
    /\ rpc = "start"
    /\ rin.feedOk
    /\ LET syms == SymbolsOf(rin.holdings) IN
       rprices' = DictOf(syms, [k \in DOMAIN syms |-> CurrentPrice(rin.data, syms[k])],
                         Len(syms))
    /\ rpc' = "priced"
    /\ UNCHANGED <<rin, rout>>

\* line 207, price_service.py:54: _get_with_retries raised
FetchCurrentPricesRaises ==
    /\ rpc = "start"
    /\ ~rin.feedOk
    /\ rpc' = "raised"
    /\ rout' = [rout EXCEPT !.err = "HTTPStatusError"]
    /\ UNCHANGED <<rin, rprices>>

\* lines 208-246: total_value, the zero-value return, the recommendations
GenerateRecommendations ==
    /\ rpc = "priced"
    /\ LET syms == SymbolsOf(rin.holdings)
           quantities == QuantitiesOf(rin.holdings)
           prices == PricesGet(rprices)
           total_value == TotalValue(syms, quantities, prices, Len(syms)) IN
       IF total_value = 0
       THEN /\ rout' = [rout EXCEPT !.total_value = 0]
            /\ rpc' = "zero"
       ELSE IF \E k \in DOMAIN syms : PriceOrOne(prices[syms[k]]) = 0
       THEN /\ rout' = [rout EXCEPT !.total_value = total_value,
                                    !.err = "ZeroDivisionError"]
            /\ rpc' = "raised"
       ELSE /\ rout' = [rout EXCEPT
                           !.total_value = total_value,
                           !.recommendations =
                               RecommendationsFor(syms, quantities, prices,
                                                  rin.w, total_value)]
            /\ rpc' = "generated"
    /\ UNCHANGED <<rin, rprices>>

RecStart ==
    /\ rin \in RecInputs
    /\ rpc = "start"
    /\ rprices = <<>>
    /\ rout = NoOutput

\* ------------------------------------------------------------------------
\* Specifications
\* ------------------------------------------------------------------------

\* the part of the state a specification does not exercise
FetchIdle ==
    /\ symbols = <<>>
    /\ fpc = "idle"
    /\ tasks = <<>>
    /\ outer = "pending"
    /\ doneOrder = <<>>
    /\ clientOpen = FALSE
    /\ table = <<>>

OptIdle ==
    /\ price_history = [columns |-> <<>>, rows |-> <<>>]
    /\ target_return = None
    /\ opc = "idle"
    /\ returns = {}
    /\ stats = [mu |-> "nan", Sigma |-> "nan", n |-> 0]
    /\ problem = NotSolved
    /\ weights = NoWeights
    /\ oerr = "none"

AppIdle ==
    /\ portfolios = <<>>
    /\ holdings = {}
    /\ reports = <<>>
    /\ last = [req |-> NoRequest, resp |-> ErrorReply(0, "none")]

RecIdle ==
    /\ rin = NoInput
    /\ rpc = "idle"
    /\ rprices = <<>>
    /\ rout = NoOutput

FetchInit == FetchStart /\ OptIdle /\ AppIdle /\ RecIdle

FetchNext ==
    \/ Gather /\ UNCHANGED <<optVars, appVars, recVars>>
    \/ \E i \in TaskIds : SendRequest(i) /\ UNCHANGED <<optVars, appVars, recVars>>
    \/ \E i \in TaskIds : \E r \in FeedResponses :
          ReceiveResponse(i, r) /\ UNCHANGED <<optVars, appVars, recVars>>
    \/ \E i \in TaskIds : TransportError(i) /\ UNCHANGED <<optVars, appVars, recVars>>
    \/ \E i \in TaskIds : Wake(i) /\ UNCHANGED <<optVars, appVars, recVars>>
    \/ JoinAndBuild /\ UNCHANGED <<optVars, appVars, recVars>>
    \/ JoinRaise /\ UNCHANGED <<optVars, appVars, recVars>>

SpecFetch == FetchInit /\ [][FetchNext]_vars

OptInit == OptStart /\ FetchIdle /\ AppIdle /\ RecIdle

OptNext ==
    \/ Estimate /\ UNCHANGED <<fetchVars, appVars, recVars>>
    \/ Solve /\ UNCHANGED <<fetchVars, appVars, recVars>>
    \/ SolveRaises /\ UNCHANGED <<fetchVars, appVars, recVars>>
    \/ NormalizeAndReturn /\ UNCHANGED <<fetchVars, appVars, recVars>>

SpecOpt == OptInit /\ [][OptNext]_vars

RecInit == RecStart /\ FetchIdle /\ OptIdle /\ AppIdle

RecNext ==
    \/ FetchCurrentPrices /\ UNCHANGED <<fetchVars, optVars, appVars>>
    \/ FetchCurrentPricesRaises /\ UNCHANGED <<fetchVars, optVars, appVars>>
    \/ GenerateRecommendations /\ UNCHANGED <<fetchVars, optVars, appVars>>

SpecRec == RecInit /\ [][RecNext]_vars

Init == AppStart /\ FetchIdle /\ OptIdle /\ RecIdle

Next ==
    \/ \E user \in Users, name \in Names, items \in ItemLists :
          CreatePortfolio(user, name, items) /\ UNCHANGED <<fetchVars, optVars, recVars>>
    \/ \E user \in Users, pid \in PortfolioIds :
          ReadPortfolio(user, pid) /\ UNCHANGED <<fetchVars, optVars, recVars>>
    \/ \E user \in Users, pid \in PortfolioIds, name \in Names, items \in ItemLists :
          UpdatePortfolio(user, pid, name, items) /\ UNCHANGED <<fetchVars, optVars, recVars>>
    \/ \E user \in Users, pid \in PortfolioIds :
          DeletePortfolio(user, pid) /\ UNCHANGED <<fetchVars, optVars, recVars>>
    \/ \E user \in Users, pid \in PortfolioIds :
          \E order \in Orderings(AssetsOf(pid)), env \in RebalanceEnvs(TickerCount(pid)) :
              /\ RebalancePortfolio(user, pid, order, env.curOk, env.data,
                                    env.histOk, env.optOk, env.raw)
              /\ UNCHANGED <<fetchVars, optVars, recVars>>

Spec == Init /\ [][Next]_vars

\* ------------------------------------------------------------------------
\* Claims about the market data client (checked under SpecFetch)
\* ------------------------------------------------------------------------

Statuses(t) == [k \in DOMAIN t.got |-> t.got[k].status]

OnlyRateLimitedBefore(t, k) == \A m \in 1..(k - 1) : t.got[m].status = 429

\* C3: a feed that answers every request with 429 gets exactly 3 requests,
\* the fetch waits exactly 10 then 20 (no wait after the final attempt) and
\* then raises the upstream error.
C3_RetryBoundNoFinalWait ==
    \A i \in TaskIds :
        (/\ Finished(tasks[i])
         /\ Len(tasks[i].got) = MAX_RETRIES
         /\ OnlyRateLimitedBefore(tasks[i], MAX_RETRIES + 1))
        => /\ tasks[i].sent = 3
           /\ tasks[i].waits = <<10, 20>>
           /\ tasks[i].pc = "raised"
           /\ tasks[i].err = "HTTPStatusError"

\* C4: a response that is neither a success nor 429 makes the fetch raise at
\* once, on whichever attempt it arrives: it is the last response received,
\* no request follows it and no wait beyond those of the 429s before it.
C4_OtherErrorRaisesImmediately ==
    \A i \in TaskIds : \A k \in DOMAIN tasks[i].got :
        tasks[i].got[k].status \notin {200, 429}
        => /\ Len(tasks[i].got) = k
           /\ tasks[i].sent = k
           /\ Len(tasks[i].waits) = k - 1
           /\ tasks[i].pc = "raised"
           /\ tasks[i].err = "HTTPStatusError"

C4_Witness ==
    \E i \in TaskIds :
        /\ Statuses(tasks[i]) = <<429, 500>>
        /\ tasks[i].pc = "raised"
        /\ tasks[i].waits = <<10>>

\* C5: a success preceded only by 429s within the first 3 attempts is
\* returned and nothing is raised; the wait before attempt k+1 is
\* 10 * 2^(k-1); a 429 surfaces as an error only when the cap is exhausted.
C5_RetriedUntilSuccess ==
    \A i \in TaskIds :
        LET t == tasks[i]
            n == Len(t.got) IN
        /\ (n > 0 /\ t.got[n].status = 200 /\ OnlyRateLimitedBefore(t, n))
           => /\ n <= MAX_RETRIES
              /\ t.pc = "returned"
              /\ t.err = "none"
              /\ t.resp = t.got[n]
              /\ t.sent = n
              /\ Len(t.waits) = n - 1
        /\ \A k \in DOMAIN t.waits : t.waits[k] = 10 * 2^(k - 1)
        /\ (t.err = "HTTPStatusError" /\ t.resp.status = 429)
           => Len(t.got) = MAX_RETRIES

C5_Witness ==
    \E i \in TaskIds :
        /\ Statuses(tasks[i]) = <<429, 429, 200>>
        /\ tasks[i].pc = "returned"
        /\ tasks[i].waits = <<10, 20>>

\* C6: fetch_historical_prices leaves the join only after every per-symbol
\* retrieval has completed, also when one retrieval fails.
C6_NoneInFlightAfterJoin ==
    fpc \in {"returned", "raised"} => \A i \in TaskIds : Finished(tasks[i])

IsDistinct(s) == \A a, b \in DOMAIN s : a # b => s[a] # s[b]

FirstIndex(s, x) == CHOOSE k \in DOMAIN s : s[k] = x /\ \A m \in 1..(k - 1) : s[m] # x

\* C7: whatever the completion order, the returned table has its columns in
\* the order of the input symbols and each column holds the data of the
\* response to a request for its own symbol.
C7_ColumnsFollowInput ==
    fpc = "returned" =>
        /\ \A k \in TaskIds : \E c \in DOMAIN table : table[c].sym = symbols[k]
        /\ \A c \in DOMAIN table :
              \E k \in TaskIds :
                  symbols[k] = table[c].sym /\ table[c].data = tasks[k].resp.data
        /\ \A c, d \in DOMAIN table :
              c < d => FirstIndex(symbols, table[c].sym) < FirstIndex(symbols, table[d].sym)
        /\ IsDistinct(symbols) =>
              /\ Len(table) = Len(symbols)
              /\ \A k \in TaskIds :
                    table[k] = [sym |-> symbols[k], data |-> tasks[k].resp.data]

C7_Witness ==
    /\ fpc = "returned"
    /\ Len(symbols) = 2
    /\ IsDistinct(symbols)
    /\ doneOrder = <<2, 1>>
    /\ tasks[1].resp.data # tasks[2].resp.data

\* C8: while one fetch waits in its backoff the other fetches can still send
\* their requests and receive their responses, and the backoff counter of a
\* fetch is determined by that fetch's own waits alone.
C8_BackoffIsLocal ==
    /\ \A i, j \in TaskIds :
          (i # j /\ tasks[i].pc = "sleep") =>
              /\ tasks[j].pc = "get" => ENABLED SendRequest(j)
              /\ tasks[j].pc = "await" =>
                    ENABLED (\E r \in FeedResponses : ReceiveResponse(j, r))
    /\ \A i \in TaskIds :
          tasks[i].backoff = InitialBackoff * 2^Len(tasks[i].waits)

C8_Witness ==
    \E i, j \in TaskIds :
        /\ i # j
        /\ tasks[i].pc = "sleep"
        /\ tasks[i].backoff = 10
        /\ tasks[j].pc = "get"
        /\ tasks[j].backoff = 20
        /\ ENABLED SendRequest(j)

\* ------------------------------------------------------------------------
\* Claims about the allocation optimizer (checked under SpecOpt)
\* ------------------------------------------------------------------------

\* C9: with fewer than 2 usable rows of returns the estimation step ends in
\* an InsufficientHistory error and produces no weights; the call never goes
\* on to the solver with a degenerate mean vector or covariance matrix.
C9_InsufficientHistoryStops ==
    (opc \notin {"idle", "start"}
        /\ Cardinality(UsableReturnRows(price_history)) < 2)
    => /\ opc = "raised"
       /\ oerr = "InsufficientHistory"
       /\ problem = NotSolved
       /\ weights = NoWeights

\* C10: when the solver ends in any status other than an optimal solution,
\* compute_optimal_weights ends in a fatal error and returns no weight
\* mapping.
C10_NoWeightsUnlessOptimal ==
    (opc \in {"returned", "raised"} /\ problem.status \notin {"not_run", "optimal"})
    => /\ opc = "raised"
       /\ weights = NoWeights

\* the raw weight of column i as the clipping step leaves it
ClippedRaw(i) == IF problem.value[i] < EPS_ZERO THEN 0 ELSE problem.value[i]

RECURSIVE ClippedTotal(_)
ClippedTotal(k) == IF k = 0 THEN 0 ELSE ClippedTotal(k - 1) + ClippedRaw(k)

RECURSIVE NumeratorTotal(_)
NumeratorTotal(k) == IF k = 0 THEN 0 ELSE NumeratorTotal(k - 1) + weights[k].num

C12_EqualWeightFallback ==
    opc = "returned"
    => LET n == Len(price_history.columns) IN
       \A i \in 1..n :
          IF ClippedTotal(n) = 0
          THEN weights[i].num * n = weights[i].den
          ELSE weights[i].num * ClippedTotal(n) = ClippedRaw(i) * weights[i].den

\* two assets whose raw weights are both below the threshold, one negative
C12_Witness ==
    /\ opc = "returned"
    /\ Len(price_history.columns) = 2
    /\ problem.value[1] = 1
    /\ problem.value[2] = 0 - 1
    /\ weights[1].num * 2 = weights[1].den
    /\ weights[2].num * 2 = weights[2].den

\* ------------------------------------------------------------------------
\* Claims about the recommendation data path (checked under SpecRec)
\* ------------------------------------------------------------------------

\* the symbol of row k of the input
HoldingSymbol(k) == Lower(AssetSymbols[rin.holdings[k].asset_id])

\* the price the returned mapping holds for the symbol of row k
HoldingPrice(k) ==
    LET c == CHOOSE c \in DOMAIN rprices : rprices[c].sym = HoldingSymbol(k) IN
    rprices[c].data

\* the target weight of the symbol of row k: 0 when the mapping has none
HoldingTarget(k) ==
    IF \E c \in DOMAIN rin.w : rin.w[c].sym = HoldingSymbol(k)
    THEN LET c == CHOOSE c \in DOMAIN rin.w : rin.w[c].sym = HoldingSymbol(k) IN
         Q(rin.w[c].num, rin.w[c].den)
    ELSE QInt(0)

\* C13: the action of a recommendation is "buy" exactly when its target_pct
\* is greater than its current_pct and "sell" otherwise, a tie included.
C13_BuyOnlyAboveCurrent ==
    rpc = "generated"
    => \A k \in DOMAIN rout.recommendations :
          LET r == rout.recommendations[k] IN
          r.action = IF r.target_pct.num * r.current_pct.den
                            > r.current_pct.num * r.target_pct.den
                     THEN "buy" ELSE "sell"

\* a recommendation whose target_pct equals its current_pct says sell
C13_Witness ==
    /\ rpc = "generated"
    /\ \E k \in DOMAIN rout.recommendations :
          /\ rout.recommendations[k].target_pct = rout.recommendations[k].current_pct
          /\ rout.recommendations[k].target_pct.num > 0
          /\ rout.recommendations[k].action = "sell"

\* C14: the recommendation list has one entry per input row, in the order of
\* the rows, whatever the order of the keys of the weight mapping.
C14_OrderOfHoldings ==
    rpc = "generated"
    => /\ Len(rout.recommendations) = Len(rin.holdings)
       /\ \A k \in DOMAIN rin.holdings :
             rout.recommendations[k].symbol = HoldingSymbol(k)

\* two rows of different symbols, the weight mapping keyed the other way round
C14_Witness ==
    /\ rpc = "generated"
    /\ Len(rin.holdings) = 2
    /\ HoldingSymbol(1) # HoldingSymbol(2)
    /\ Len(rin.w) = 2
    /\ rin.w[1].sym = HoldingSymbol(2)
    /\ rin.w[2].sym = HoldingSymbol(1)

\* C15: with total_value > 0 every recommendation has current_pct = the
\* row's quantity x price / total_value, target_pct = the target weight of
\* its symbol (0 without one), amount_units = |target_pct - current_pct| x
\* total_value / price and amount_value = amount_units x price; BTC (1 unit
\* at 50000) and ETH (10 units at 3000) with weights 1/2 each give BTC sell
\* 1/5 of a unit and ETH buy 10/3 units.
C15_RecommendationArithmetic ==
    rpc = "generated"
    => /\ \A k \in DOMAIN rout.recommendations :
             LET r == rout.recommendations[k]
                 price == HoldingPrice(k)
                 total == rout.total_value
                 gap == QAbs(QSub(r.target_pct, r.current_pct)) IN
             /\ r.current_pct = Q(rin.holdings[k].quantity * price, total)
             /\ r.target_pct = HoldingTarget(k)
             /\ price # 0 =>
                    r.amount_units = QDiv(QMul(gap, QInt(total)), QInt(price))
             /\ r.amount_value = QMul(r.amount_units, QInt(price))
       /\ (/\ Len(rin.holdings) = 2
           /\ HoldingSymbol(1) = "btc" /\ rin.holdings[1].quantity = 1
           /\ HoldingSymbol(2) = "eth" /\ rin.holdings[2].quantity = 10
           /\ rin.data["btc"] = 50000 /\ rin.data["eth"] = 3000
           /\ HoldingTarget(1) = Q(1, 2) /\ HoldingTarget(2) = Q(1, 2))
          => /\ rout.total_value = 80000
             /\ rout.recommendations[1].action = "sell"
             /\ rout.recommendations[1].amount_units = Q(1, 5)
             /\ rout.recommendations[2].action = "buy"
             /\ rout.recommendations[2].amount_units = Q(10, 3)

\* C16: a row whose price is 0 or missing, in a portfolio of positive total
\* value, does not make the generation fail: its amount_units is
\* |diff| x total_value / 1 and its amount_value is 0.
C16_ZeroPriceHolding ==
    /\ rout.err # "ZeroDivisionError"
    /\ rpc = "generated"
       => \A k \in DOMAIN rout.recommendations :
             LET r == rout.recommendations[k] IN
             HoldingPrice(k) = 0
             => /\ r.amount_units =
                      QMul(QAbs(QSub(r.target_pct, r.current_pct)),
                           QInt(rout.total_value))
                /\ r.amount_value = QInt(0)

\* a row without a price next to a row that has one, and a weight to buy
C16_Witness ==
    /\ rpc = "generated"
    /\ \E k \in DOMAIN rout.recommendations :
          /\ rin.data[HoldingSymbol(k)] = Missing
          /\ rout.recommendations[k].action = "buy"
          /\ rout.recommendations[k].amount_units.num > 0

\* C17: every recommendation has current_pct and target_pct in [0,1],
\* amount_units >= 0, amount_value >= 0 and an action of buy or sell.
C17_RecommendationRanges ==
    rpc = "generated"
    => \A k \in DOMAIN rout.recommendations :
          LET r == rout.recommendations[k] IN
          /\ r.current_pct.den > 0 /\ r.target_pct.den > 0
          /\ r.amount_units.den > 0 /\ r.amount_value.den > 0
          /\ 0 <= r.current_pct.num /\ r.current_pct.num <= r.current_pct.den
          /\ 0 <= r.target_pct.num /\ r.target_pct.num <= r.target_pct.den
          /\ 0 <= r.amount_units.num
          /\ 0 <= r.amount_value.num
          /\ r.action \in {"buy", "sell"}

\* a list with a sell and a buy of positive amounts
C17_Witness ==
    /\ rpc = "generated"
    /\ \E a, b \in DOMAIN rout.recommendations :
          /\ rout.recommendations[a].action = "sell"
          /\ rout.recommendations[a].amount_value.num > 0
          /\ rout.recommendations[b].action = "buy"
          /\ rout.recommendations[b].amount_value.num > 0

\* C18: the mapping fetch_current_prices returns has exactly one entry per
\* requested symbol: the feed's price when the answer holds one for the
\* symbol and the currency, 0 when it does not; the call fails only when the
\* request to the feed failed.
C18_MissingPriceIsZero ==
    /\ (rpc = "raised" /\ rout.total_value = NoTotal) => ~rin.feedOk
    /\ rpc \in {"priced", "zero", "generated"}
       => /\ \A k \in DOMAIN rin.holdings :
                /\ Cardinality({c \in DOMAIN rprices :
                                   rprices[c].sym = HoldingSymbol(k)}) = 1
                /\ HoldingPrice(k) =
                      IF rin.data[HoldingSymbol(k)] \in {Missing, NoQuote}
                      THEN 0 ELSE rin.data[HoldingSymbol(k)]
          /\ \A c \in DOMAIN rprices :
                \E k \in DOMAIN rin.holdings : rprices[c].sym = HoldingSymbol(k)

\* one symbol without an entry, one without the currency, and a priced one
C18_Witness ==
    /\ rpc = "priced"
    /\ Len(rin.holdings) = 2
    /\ \E a, b \in DOMAIN rin.holdings :
          /\ rin.data[HoldingSymbol(a)] \in {Missing, NoQuote}
          /\ HoldingPrice(a) = 0
          /\ rin.data[HoldingSymbol(b)] = 3000
          /\ HoldingPrice(b) = 3000

RECURSIVE CurrentPctTotal(_)
\* the sum of current_pct over the first k recommendations
CurrentPctTotal(k) ==
    IF k = 0 THEN QInt(0)
    ELSE QAdd(CurrentPctTotal(k - 1), rout.recommendations[k].current_pct)

RECURSIVE AmountValueTotal(_, _)
\* the sum of amount_value over those of the first k recommendations that
\* have this action
AmountValueTotal(action, k) ==
    IF k = 0 THEN QInt(0)
    ELSE IF rout.recommendations[k].action = action
    THEN QAdd(AmountValueTotal(action, k - 1), rout.recommendations[k].amount_value)
    ELSE AmountValueTotal(action, k - 1)

\* C24: in a recommendation list produced with total_value > 0 the
\* current_pct values sum to 1 and the amount_value of the buys adds up to
\* the amount_value of the sells, a holding of price 0 included.
C24_BuysBalanceSells ==
    rpc = "generated"
    => LET n == Len(rout.recommendations) IN
       /\ CurrentPctTotal(n) = QInt(1)
       /\ AmountValueTotal("buy", n) = AmountValueTotal("sell", n)

RECURSIVE OwnValue(_)
\* the sum of quantity x price over the first k rows, each row counted with
\* its own quantity
OwnValue(k) ==
    IF k = 0 THEN 0
    ELSE OwnValue(k - 1) + rin.holdings[k].quantity * HoldingPrice(k)

\* C25: for a portfolio whose asset symbols differ only in letter case,
\* total_value counts every row's own quantity once and the current_pct of
\* a recommendation uses the quantity of its own row.
C25_OwnQuantity ==
    (/\ rpc \in {"zero", "generated"}
     /\ \E a, b \in DOMAIN rin.holdings :
           /\ a # b
           /\ rin.holdings[a].asset_id # rin.holdings[b].asset_id
           /\ HoldingSymbol(a) = HoldingSymbol(b))
    => /\ rout.total_value = OwnValue(Len(rin.holdings))
       /\ \A k \in DOMAIN rout.recommendations :
             rout.recommendations[k].current_pct
                = Q(rin.holdings[k].quantity * HoldingPrice(k), rout.total_value)

\* ------------------------------------------------------------------------
\* Claims about the portfolio handlers (checked under Spec)
\* ------------------------------------------------------------------------

\* C1: a rebalance of an owned, non-empty portfolio whose total value is
\* zero ends normally: status 200, an empty recommendation list and a
\* non-null message; nothing is raised.
C1_ZeroValueShortCircuit ==
    (/\ last.req.op = "rebalance"
     /\ GetPortfolio(last.req.pid, last.req.user)
     /\ AssetsOf(last.req.pid) # {}
     /\ last.resp.total_value = 0)
    => /\ last.resp.status = 200
       /\ last.resp.recommendations = <<>>
       /\ last.resp.message # "null"

\* C2: a portfolio created from a list of assets has, for each of them, a
\* holding with the supplied quantity, in the create response and in the
\* database a later read returns.
C2_CreateKeepsQuantity ==
    (last.req.op = "create" /\ last.resp.status = 201)
    => \A k \in DOMAIN last.req.items :
          LET item == last.req.items[k] IN
          /\ \E a \in last.resp.assets :
                a.asset_id = item.asset_id /\ a.quantity = item.quantity
          /\ \E h \in AssetsOf(last.req.pid) :
                h.asset_id = item.asset_id /\ h.quantity = item.quantity

\* C19: read, update, delete and rebalance of a portfolio by a user who is
\* not its owner answer 404 Portfolio not found and leave the portfolios,
\* the holdings and the reports as they were.
C19_OwnerOnly ==
    [][(/\ last'.req.op \in {"read", "update", "delete", "rebalance"}
        /\ last'.req.pid \in DOMAIN portfolios
        /\ portfolios[last'.req.pid].user_id # last'.req.user)
       => /\ last'.resp.status = 404
          /\ last'.resp.detail = "Portfolio not found"
          /\ UNCHANGED <<portfolios, holdings, reports>>]_vars

\* a portfolio with holdings and a report, after a delete by another user
C19_Witness ==
    /\ last.req.op = "delete"
    /\ last.req.pid \in DOMAIN portfolios
    /\ portfolios[last.req.pid].user_id # last.req.user
    /\ last.resp.status = 404
    /\ AssetsOf(last.req.pid) # {}
    /\ ReportsOf(last.req.pid) # {}

\* C20: after a successful update the portfolio has the new name and its
\* holdings are exactly the entries of the request's asset list (asset,
\* target_pct and quantity), none of the earlier holdings remaining.
C20_UpdateReplacesHoldings ==
    (last.req.op = "update" /\ last.resp.status = 200)
    => /\ portfolios[last.req.pid].name = last.req.name
       /\ last.resp.name = last.req.name
       /\ {AssetRead(h) : h \in AssetsOf(last.req.pid)}
             = {last.req.items[k] : k \in DOMAIN last.req.items}
       /\ last.resp.assets = {last.req.items[k] : k \in DOMAIN last.req.items}

\* an update to two assets with a quantity each
C20_Witness ==
    /\ last.req.op = "update"
    /\ last.resp.status = 200
    /\ last.req.name = "n2"
    /\ Len(last.req.items) = 2
    /\ \A k \in DOMAIN last.req.items : last.req.items[k].quantity = 1

\* C21: a rebalance call stores a report exactly when it completes the
\* optimizer path: on success one report with the generated recommendation
\* list is added; in every other ending the stored reports are unchanged.
C21_ReportStoredOnSuccessOnly ==
    [][last'.req.op = "rebalance"
       => IF last'.resp.status = 200 /\ last'.resp.total_value > 0
          THEN /\ Len(reports') = Len(reports) + 1
               /\ SubSeq(reports', 1, Len(reports)) = reports
               /\ reports'[Len(reports')].portfolio_id = last'.req.pid
               /\ reports'[Len(reports')].recommendations
                     = last'.resp.recommendations
               /\ last'.resp.recommendations # <<>>
          ELSE reports' = reports]_vars

\* a successful rebalance, its report stored
C21_Witness ==
    /\ last.req.op = "rebalance"
    /\ last.resp.status = 200
    /\ Len(last.resp.recommendations) = 2
    /\ Len(reports) = 1
    /\ reports[1].recommendations = last.resp.recommendations

\* C22: update_portfolio is all-or-nothing: when inserting the new holdings
\* fails, the portfolio keeps the name and the holdings it had before.
C22_UpdateAllOrNothing ==
    [][(last'.req.op = "update" /\ last'.resp.status \notin {200, 404})
       => UNCHANGED <<portfolios, holdings>>]_vars

\* C23: delete_portfolio succeeds for every portfolio the caller owns, one
\* with stored reports included; afterwards neither the portfolio, nor its
\* holdings, nor a report that references it remains.
C23_DeleteOwnedSucceeds ==
    [][(/\ last'.req.op = "delete"
        /\ last'.req.pid \in DOMAIN portfolios
        /\ portfolios[last'.req.pid].user_id = last'.req.user)
       => /\ last'.resp.status = 204
          /\ last'.req.pid \notin DOMAIN portfolios'
          /\ \A h \in holdings' : h.portfolio_id # last'.req.pid
          /\ \A k \in DOMAIN reports' :
                reports'[k].portfolio_id # last'.req.pid]_vars

====
